---- MODULE Spec2Model ----
(***************************************************************************)
(* Model of the go-scp client: the receive-side directory reconstructor    *)
(* (ReceiveDir), the send-side directory walker (SendDir) and the session  *)
(* runners (runResourceSession, runSinkSession).                           *)
(*                                                                         *)
(* Paths are sequences of name components (naturals).  The empty sequence  *)
(* is the top of the path space ("/" or "."), whose filepath.Dir is itself.*)
(* A relative path returned by filepath.Rel is a sequence of components in *)
(* which DotDot stands for "..", and the empty sequence stands for ".".    *)
(***************************************************************************)
EXTENDS Integers, Sequences, FiniteSets, TLC

\* ---------------------------------------------------------------- bounds
MaxReads == 4
MaxName == 2
MaxTime == 2
MaxDepth == 4
MaxWalkDepth == 3
MaxIO == 2

Names == 1..MaxName
Times == 1..MaxTime

\* ------------------------------------------------------------- constants
DotDot == 0
EmptyString == <<DotDot>>
DestDir == <<8, 9>>
SrcDir == <<7>>
ZeroTime == 0

VARIABLES
    op,                     \* the public operation being run
    pc,                     \* position of the operation
    result,                 \* "none", "ok", "error" or "panic"
    ops,                    \* calls made by the most recent step, in order
    \* ReceiveDir
    skipsFirstDirectory, curDir, timeHeader, timeHeaders,
    created,                \* per pushed TimeHeader: its Start created the directory
    isFirstStartDirectory, skipBaseDir,
    nread,                  \* number of ReadHeaderOrReply calls so far
    undrained,              \* a FileHeader was returned and its body not yet copied
    dirs, files,            \* local filesystem: existing directories, written files
    rejDepth,               \* nesting depth inside the filter-rejected directory (0 outside)
    \* SendDir
    prevDir, prevDirSkipped,
    wpath,                  \* the entry filepath.Walk visited last
    wdescend,               \* Walk will descend into wpath (a directory, no SkipDir)
    openDirs,                   \* directories started and not yet ended, outermost first
    startsMinusEnds,        \* StartDirectory calls minus EndDirectory calls
    suppressed,             \* EndDirectory calls the most recent step suppressed
    \* session runners
    rpc,                    \* position of runResourceSession / runSinkSession
    ctxCancellable,         \* ctx.Done() != nil
    cancelled,              \* the cancellation signal has fired
    session,                \* the ssh session: "none", "open", "closed" or "nil"
    closeCalls,             \* session.Close() calls made on the ssh session
    stdin,                  \* the session's stdin pipe: "none", "open" or "closed"
    watcher,                \* the background goroutine: "none", "started", "waiting", "exited"
    hleft,                  \* I/O calls the handler still makes before it returns nil
    remoteLeft,             \* I/O calls the remote still answers before it goes silent
    herr,                   \* the handler returned an error
    cancelledInHandler,     \* the signal fired while the handler was running
    \* ReceiveFile
    srcFile,                \* srcFile after realPath(filepath.Clean(srcFile))
    destArg,                \* the destFile argument as the caller passed it
    destKind,               \* what is at the destination: "notexist", "file" or "dir"
    destFile,               \* the local variable destFile
    cmd,                    \* option letters of the remote command line (<<>>: not built)
    reterr                  \* the error the runner returns: "nil", a setup step,
                            \* "handler", "wait" or "close"

recvVars == <<skipsFirstDirectory, curDir, timeHeader, timeHeaders, created,
              isFirstStartDirectory, skipBaseDir, nread, undrained,
              dirs, files, rejDepth>>

sendVars == <<prevDir, prevDirSkipped, wpath, wdescend, openDirs, startsMinusEnds,
              suppressed>>

sessVars == <<rpc, ctxCancellable, cancelled, session, closeCalls, stdin, watcher,
              hleft, remoteLeft, herr, cancelledInHandler, cmd, reterr>>

rfVars == <<srcFile, destArg, destKind, destFile>>

vars == <<op, pc, result, ops, recvVars, sendVars, sessVars, rfVars>>

\* ------------------------------------------------------- path functions
Front(p) == SubSeq(p, 1, Len(p) - 1)

Dir(p) == IF p = <<>> THEN <<>> ELSE Front(p)

Join(p, name) == Append(p, name)

\* filepath.Clean of a rooted path: ".." removes the component before it and
\* is dropped at the root.
RECURSIVE CleanLoop(_, _)
CleanLoop(out, rest) ==
    IF rest = <<>> THEN out
    ELSE IF Head(rest) = DotDot
    THEN CleanLoop(IF out = <<>> THEN out ELSE Front(out), Tail(rest))
    ELSE CleanLoop(Append(out, Head(rest)), Tail(rest))

Clean(p) == CleanLoop(<<>>, p)

\* filepath.Base: the last component; the root's base is the root itself,
\* which filepath.Join then cleans away.
Base(p) == IF p = <<>> THEN <<>> ELSE <<p[Len(p)]>>

\* filepath.Join(dir, base)
JoinPath(dir, base) == Clean(dir \o base)

RECURSIVE CommonLen(_, _)
CommonLen(a, b) ==
    IF a # <<>> /\ b # <<>> /\ Head(a) = Head(b)
    THEN 1 + CommonLen(Tail(a), Tail(b))
    ELSE 0

Rel(basepath, targpath) ==
    LET k == CommonLen(basepath, targpath)
    IN  [i \in 1..(Len(basepath) - k) |-> DotDot]
          \o SubSeq(targpath, k + 1, Len(targpath))

\* strings.HasPrefix(rel, "../")
HasDotDotSlashPrefix(rel) == Len(rel) >= 2 /\ rel[1] = DotDot

\* isSubdirectory with the negation lost
isSubdirectory_Inverted(basepath, targetpath) ==
    HasDotDotSlashPrefix(Rel(basepath, targetpath))

isSubdirectory(basepath, targetpath) ==
    ~HasDotDotSlashPrefix(Rel(basepath, targetpath))

Prefixes(p) == {SubSeq(p, 1, i) : i \in 0..Len(p)}

\* --------------------------------------------------------------- calls
\* A call record: the function called, its path argument, its time argument
\* and what it returned ("" when the result does not matter).
Call(name) == [call |-> name, path |-> <<>>, arg |-> 0, ret |-> ""]
CallP(name, p) == [call |-> name, path |-> p, arg |-> 0, ret |-> ""]
CallA(name, p, a) == [call |-> name, path |-> p, arg |-> a, ret |-> ""]
CallR(name, p, r) == [call |-> name, path |-> p, arg |-> 0, ret |-> r]

\* acceptFn(parentDir, info): info says whether the entry is a directory.
AcceptCall(p, isDir, r) ==
    [call |-> "acceptFn", path |-> p, arg |-> IF isDir THEN 1 ELSE 0, ret |-> r]

\* the filter's error ignored
filterFailed_Ignored(acc) == FALSE

\* accepted, err := acceptFn(...); if err != nil { return ... }
filterFailed(acc) == acc = "error"

FsCalls == {"MkdirAll", "Chmod", "Chtimes", "OpenFile"}

Discard == <<DotDot, DotDot>>

Failures == {"none", "MkdirAll", "Chmod", "Chtimes", "OpenFile", "CopyFileBodyTo"}

AcceptResults == {"accept", "reject", "error"}

\* ------------------------------------------------ local filesystem (OS)
MkdirAllOk(p, fail) == fail # "MkdirAll" /\ Prefixes(p) \cap files = {}

ChmodOk(p, fail) == fail # "Chmod" /\ (p \in dirs \/ p \in files)

ChtimesDirOk(p, fail) == fail # "Chtimes" /\ p \in dirs

OpenFileOk(p, fail) == fail # "OpenFile" /\ Dir(p) \in dirs /\ p \notin dirs

\* =====================================================================
\* ReceiveDir
\* =====================================================================

\* os.Stat(destDir) and the MkdirAll of a missing destDir, then the session
\* is started and the handler's locals are initialised.
ReceiveDirBegin ==
    /\ op = "ReceiveDir" /\ pc = "start"
    /\ \E stat \in {"exists", "notexist", "error"}, fail \in {"none", "MkdirAll"} :
        /\ IF stat = "error"
           THEN /\ pc' = "returned" /\ result' = "error"
                /\ ops' = <<CallP("Stat", DestDir)>>
                /\ UNCHANGED recvVars
           ELSE IF stat = "notexist" /\ fail = "MkdirAll"
           THEN /\ pc' = "returned" /\ result' = "error"
                /\ ops' = <<CallP("Stat", DestDir), CallP("MkdirAll", DestDir)>>
                /\ UNCHANGED recvVars
           ELSE /\ pc' = "handler" /\ result' = "none"
                /\ skipsFirstDirectory' = (stat = "notexist")
                /\ dirs' = dirs \cup {DestDir}
                /\ ops' = IF stat = "notexist"
                          THEN <<CallP("Stat", DestDir), CallP("MkdirAll", DestDir)>>
                          ELSE <<CallP("Stat", DestDir)>>
                /\ curDir' = DestDir
                /\ timeHeader' = ZeroTime
                /\ timeHeaders' = <<>> /\ created' = <<>>
                /\ isFirstStartDirectory' = TRUE
                /\ skipBaseDir' = EmptyString
                /\ UNCHANGED <<nread, undrained, files, rejDepth>>
        /\ UNCHANGED <<op, sendVars, sessVars, rfVars>>

\* The handler is about to call ReadHeaderOrReply.
Reading == op = "ReceiveDir" /\ pc = "handler" /\ nread < MaxReads

Read(kind) == CallR("ReadHeaderOrReply", <<>>, kind)

\* the elision applied to every StartDirectoryHeader, not only the first
elidesFirstDirectory_EveryStart == skipsFirstDirectory

\* if isFirstStartDirectory { ...; if skipsFirstDirectory { continue } }
elidesFirstDirectory == isFirstStartDirectory /\ skipsFirstDirectory

\* skipBaseDir != ""
skipping == skipBaseDir # EmptyString

\* case timeMsgHeader
RecvTime ==
    /\ Reading
    /\ \E t \in Times :
        /\ nread' = nread + 1
        /\ undrained' = FALSE
        /\ ops' = <<Read("time")>>
        /\ timeHeader' = t
        /\ UNCHANGED <<op, pc, result, sendVars, sessVars, rfVars, skipsFirstDirectory, curDir, timeHeaders, created,
                       isFirstStartDirectory, skipBaseDir, dirs, files, rejDepth>>

\* case okMsg
RecvOk ==
    /\ Reading
    /\ nread' = nread + 1
    /\ undrained' = FALSE
    /\ ops' = <<Read("ok")>>
    /\ UNCHANGED <<op, pc, result, sendVars, sessVars, rfVars, skipsFirstDirectory, curDir, timeHeader,
                   timeHeaders, created, isFirstStartDirectory, skipBaseDir, dirs, files,
                   rejDepth>>

\* err == io.EOF: break, return nil
RecvEOF ==
    /\ Reading
    /\ nread' = nread + 1
    /\ undrained' = FALSE
    /\ ops' = <<Read("EOF")>>
    /\ pc' = "returned" /\ result' = "ok"
    /\ UNCHANGED <<op, sendVars, sessVars, rfVars, skipsFirstDirectory, curDir, timeHeader, timeHeaders, created,
                   isFirstStartDirectory, skipBaseDir, dirs, files, rejDepth>>

\* err != nil: the read failed (I/O error, protocol error, fatal reply)
RecvReadErr ==
    /\ Reading
    /\ nread' = nread + 1
    /\ ops' = <<Read("error")>>
    /\ pc' = "returned" /\ result' = "error"
    /\ UNCHANGED <<op, sendVars, sessVars, rfVars, skipsFirstDirectory, curDir, timeHeader, timeHeaders, created,
                   isFirstStartDirectory, skipBaseDir, undrained, dirs, files,
                   rejDepth>>

\* case startDirectoryMsgHeader
RecvStartDirectory ==
    /\ Reading
    /\ \E name \in Names, acc \in AcceptResults, fail \in {"none", "MkdirAll", "Chmod"} :
        /\ nread' = nread + 1
        /\ undrained' = FALSE
        /\ isFirstStartDirectory' = FALSE
        /\ UNCHANGED <<op, sendVars, sessVars, rfVars, skipsFirstDirectory, timeHeader, files>>
        /\ IF elidesFirstDirectory
           THEN \* the first directory is the destination root itself: continue
                /\ ops' = <<Read("start")>>
                /\ UNCHANGED <<pc, result, curDir, timeHeaders, created, skipBaseDir, dirs,
                               rejDepth>>
           ELSE /\ Len(curDir) < MaxDepth
                /\ LET newDir == Join(curDir, name)
                       acceptCall == AcceptCall(newDir, TRUE, acc)
                       creates == ~skipping /\ acc = "accept" /\ MkdirAllOk(newDir, fail)
                   IN  /\ curDir' = newDir
                       /\ timeHeaders' = Append(timeHeaders, timeHeader)
                       /\ created' = Append(created, creates)
                       /\ IF skipping
                          THEN /\ ops' = <<Read("start")>>
                               /\ rejDepth' = IF rejDepth > 0 THEN rejDepth + 1 ELSE 0
                               /\ UNCHANGED <<pc, result, skipBaseDir, dirs>>
                          ELSE IF filterFailed(acc)
                          THEN /\ ops' = <<Read("start"), acceptCall>>
                               /\ pc' = "returned" /\ result' = "error"
                               /\ UNCHANGED <<skipBaseDir, dirs, rejDepth>>
                          ELSE IF acc = "reject"
                          THEN /\ ops' = <<Read("start"), acceptCall>>
                               /\ skipBaseDir' = newDir
                               /\ rejDepth' = rejDepth + 1
                               /\ UNCHANGED <<pc, result, dirs>>
                          ELSE IF ~MkdirAllOk(newDir, fail)
                          THEN /\ ops' = <<Read("start"), acceptCall, CallP("MkdirAll", newDir)>>
                               /\ pc' = "returned" /\ result' = "error"
                               /\ UNCHANGED <<skipBaseDir, dirs, rejDepth>>
                          ELSE /\ ops' = <<Read("start"), acceptCall, CallP("MkdirAll", newDir),
                                           CallP("Chmod", newDir)>>
                               /\ dirs' = dirs \cup Prefixes(newDir)
                               /\ rejDepth' = IF rejDepth > 0 THEN rejDepth + 1 ELSE 0
                               /\ UNCHANGED skipBaseDir
                               /\ IF fail = "Chmod"
                                  THEN pc' = "returned" /\ result' = "error"
                                  ELSE UNCHANGED <<pc, result>>

\* case endDirectoryMsgHeader
RecvEndDirectory ==
    /\ Reading
    /\ \E fail \in {"none", "Chtimes"} :
        /\ nread' = nread + 1
        /\ undrained' = FALSE
        /\ UNCHANGED <<op, sendVars, sessVars, rfVars, skipsFirstDirectory, isFirstStartDirectory, dirs, files>>
        /\ LET pops == Len(timeHeaders) > 0
               popped == IF pops THEN timeHeaders[Len(timeHeaders)] ELSE timeHeader
               chtimes == pops /\ ~skipping
               upDir == Dir(curDir)
               sub == IF upDir = EmptyString THEN TRUE
                      ELSE isSubdirectory(skipBaseDir, upDir)
           IN  /\ timeHeader' = popped
               /\ timeHeaders' = IF pops THEN Front(timeHeaders) ELSE timeHeaders
               /\ created' = IF pops THEN Front(created) ELSE created
               /\ ops' = IF chtimes
                         THEN <<Read("end"), CallA("Chtimes", curDir, popped)>>
                         ELSE <<Read("end")>>
               /\ IF chtimes /\ ~ChtimesDirOk(curDir, fail)
                  THEN /\ pc' = "returned" /\ result' = "error"
                       /\ UNCHANGED <<curDir, skipBaseDir, rejDepth>>
                  ELSE /\ curDir' = upDir
                       /\ skipBaseDir' = IF skipping /\ ~sub
                                         THEN EmptyString ELSE skipBaseDir
                       /\ rejDepth' = IF rejDepth > 0 THEN rejDepth - 1 ELSE 0
                       /\ UNCHANGED <<pc, result>>

\* copyFileBodyFromRemote: the calls it makes, whether it returned nil, and
\* whether the destination file was created.
copyFileBodyFromRemote(localFilename, th, fail) ==
    LET open == CallP("OpenFile", localFilename)
        copy == CallP("CopyFileBodyTo", localFilename)
        chmod == CallP("Chmod", localFilename)
        chtimes == CallA("Chtimes", localFilename, th)
    IN  IF ~OpenFileOk(localFilename, fail)
        THEN [calls |-> <<open>>, ok |-> FALSE, created |-> FALSE, copied |-> FALSE]
        ELSE IF fail = "CopyFileBodyTo"
        THEN [calls |-> <<open, copy>>, ok |-> FALSE, created |-> TRUE, copied |-> TRUE]
        ELSE IF fail = "Chmod"
        THEN [calls |-> <<open, copy, chmod>>, ok |-> FALSE, created |-> TRUE,
              copied |-> TRUE]
        ELSE [calls |-> <<open, copy, chmod, chtimes>>, ok |-> fail # "Chtimes",
              created |-> TRUE, copied |-> TRUE]

\* case fileMsgHeader
RecvFile ==
    /\ Reading
    /\ \E name \in Names, acc \in AcceptResults, fail \in Failures \ {"MkdirAll"} :
        /\ nread' = nread + 1
        /\ UNCHANGED <<op, sendVars, sessVars, rfVars, skipsFirstDirectory, curDir, timeHeader, timeHeaders, created,
                       isFirstStartDirectory, skipBaseDir, dirs, rejDepth>>
        /\ LET localFilename == Join(curDir, name)
               acceptCall == AcceptCall(localFilename, FALSE, acc)
               r == copyFileBodyFromRemote(localFilename, timeHeader, fail)
           IN  IF ~skipping
               THEN IF filterFailed(acc)
                    THEN /\ ops' = <<Read("file"), acceptCall>>
                         /\ pc' = "returned" /\ result' = "error"
                         /\ undrained' = TRUE
                         /\ UNCHANGED files
                    ELSE IF acc = "reject"
                    THEN /\ ops' = <<Read("file"), acceptCall>>
                         /\ undrained' = TRUE
                         /\ UNCHANGED <<pc, result, files>>
                    ELSE /\ ops' = <<Read("file"), acceptCall>> \o r.calls
                         /\ undrained' = ~r.copied
                         /\ files' = IF r.created THEN files \cup {localFilename} ELSE files
                         /\ IF r.ok THEN UNCHANGED <<pc, result>>
                            ELSE pc' = "returned" /\ result' = "error"
               ELSE /\ ops' = <<Read("file"), CallP("CopyFileBodyTo", Discard)>>
                    /\ undrained' = FALSE
                    /\ UNCHANGED files
                    /\ IF fail = "CopyFileBodyTo"
                       THEN pc' = "returned" /\ result' = "error"
                       ELSE UNCHANGED <<pc, result>>

RecvNext ==
    \/ ReceiveDirBegin
    \/ RecvTime
    \/ RecvOk
    \/ RecvEOF
    \/ RecvReadErr
    \/ RecvStartDirectory
    \/ RecvEndDirectory
    \/ RecvFile

RecvInit ==
    /\ skipsFirstDirectory = FALSE
    /\ curDir = DestDir
    /\ timeHeader = ZeroTime
    /\ timeHeaders = <<>>
    /\ created = <<>>
    /\ isFirstStartDirectory = TRUE
    /\ skipBaseDir = EmptyString
    /\ nread = 0
    /\ undrained = FALSE
    /\ dirs = Prefixes(Dir(DestDir))
    /\ files = {}
    /\ rejDepth = 0

\* ReceiveFile is not running
RecvFileIdle ==
    srcFile = <<>> /\ destArg = <<>> /\ destKind = "notexist" /\ destFile = <<>>

\* =====================================================================
\* SendDir
\* =====================================================================

\* endDirectories(prevDir, dir) given rel = filepath.Rel(prevDir, dir): the
\* EndDirectory calls made, the new prevDirSkipped and whether it returned
\* nil.  failAt is the ordinal of the EndDirectory call that fails (0: none).
RECURSIVE endDirectoriesLoop(_, _, _)
endDirectoriesLoop(rel, skipped, failAt) ==
    IF rel = <<>>
    THEN [calls |-> <<>>, skipped |-> skipped, ok |-> TRUE, suppressed |-> 0]
    ELSE IF Head(rel) # DotDot
    THEN endDirectoriesLoop(Tail(rel), skipped, failAt)
    ELSE IF skipped
    THEN LET r == endDirectoriesLoop(Tail(rel), FALSE, failAt)
         IN  [r EXCEPT !.suppressed = r.suppressed + 1]
    ELSE IF failAt = 1
    THEN [calls |-> <<CallR("EndDirectory", <<>>, "error")>>,
          skipped |-> skipped, ok |-> FALSE, suppressed |-> 0]
    ELSE LET r == endDirectoriesLoop(Tail(rel), skipped, failAt - 1)
         IN  [r EXCEPT !.calls = <<CallR("EndDirectory", <<>>, "ok")>> \o r.calls]

\* endDirectories without the prevDirSkipped test: one EndDirectory per ".."
endDirectories_NoSkip(from, to, skipped, failAt) ==
    [endDirectoriesLoop(Rel(from, to), FALSE, failAt) EXCEPT !.skipped = skipped]

endDirectories(from, to, skipped, failAt) ==
    endDirectoriesLoop(Rel(from, to), skipped, failAt)

\* The number of EndDirectory calls in calls that returned nil.
EndsIn(calls) ==
    Cardinality({i \in DOMAIN calls : calls[i] = CallR("EndDirectory", <<>>, "ok")})

PopN(stack, n) == SubSeq(stack, 1, IF Len(stack) > n THEN Len(stack) - n ELSE 0)

\* filepath.Walk visits srcDir first (level 0) and then, in lexical order,
\* either the first entry of the directory it descends into or a later
\* sibling of the last entry or of one of its ancestors.  level is the depth
\* of the next entry below srcDir.
Depth(p) == Len(p) - Len(SrcDir)

EntryAt(level, name) ==
    IF level = 0 THEN SrcDir
    ELSE Append(SubSeq(wpath, 1, Len(SrcDir) + level - 1), name)

WalkVisits(level, name) ==
    IF pc = "start" THEN level = 0 /\ name = 1
    ELSE \/ level = Depth(wpath) + 1 /\ wdescend
         \/ level >= 1 /\ level <= Depth(wpath) /\ name > wpath[Len(SrcDir) + level]

Walking == op = "SendDir" /\ pc \in {"start", "walk"}

\* myWalkFn called with err != nil
SendWalkErr ==
    /\ Walking
    /\ pc' = "returned" /\ result' = "error"
    /\ ops' = <<>>
    /\ UNCHANGED <<op, sendVars, recvVars, sessVars, rfVars>>

\* the file branch without the accepted test
sendFile_Unfiltered(path, acc, fail) ==
    IF fail = "Open"
    THEN [calls |-> <<CallR("Open", path, "error")>>, ok |-> FALSE]
    ELSE IF fail = "WriteFile"
    THEN [calls |-> <<CallR("Open", path, "ok"), CallR("WriteFile", path, "error")>>,
          ok |-> FALSE]
    ELSE [calls |-> <<CallR("Open", path, "ok"), CallR("WriteFile", path, "ok")>>,
          ok |-> TRUE]

\* The file branch of myWalkFn: os.Open and WriteFile only if accepted.
sendFile(path, acc, fail) ==
    IF acc # "accept"
    THEN [calls |-> <<>>, ok |-> TRUE]
    ELSE IF fail = "Open"
    THEN [calls |-> <<CallR("Open", path, "error")>>, ok |-> FALSE]
    ELSE IF fail = "WriteFile"
    THEN [calls |-> <<CallR("Open", path, "ok"), CallR("WriteFile", path, "error")>>,
          ok |-> FALSE]
    ELSE [calls |-> <<CallR("Open", path, "ok"), CallR("WriteFile", path, "ok")>>,
          ok |-> TRUE]

SendFailures == {"none", "StartDirectory", "Open", "WriteFile"}

\* One visit has at most one failing call: an EndDirectory that fails returns
\* before StartDirectory, os.Open or WriteFile is reached.
SendFaults ==
    [at : 0..MaxWalkDepth, in : {"none"}] \cup [at : {0}, in : SendFailures]

\* a file's own path taken as its directory
walkDir_AlwaysPath(path, isDir) == path

\* if isDir { dir = path } else { dir = filepath.Dir(path) }
walkDir(path, isDir) == IF isDir THEN path ELSE Dir(path)

\* myWalkFn(path, info, nil)
SendVisit ==
    /\ Walking
    /\ \E level \in 0..MaxWalkDepth, name \in Names, isDir \in BOOLEAN,
          acc \in AcceptResults, fault \in SendFaults :
        LET failAt == fault.at
            fail == fault.in
        IN
        /\ WalkVisits(level, name)
        /\ level = 0 => isDir
        /\ LET path == EntryAt(level, name)
               dir == walkDir(path, isDir)
               e == endDirectories(prevDir, dir, prevDirSkipped, failAt)
               acceptCall == AcceptCall(path, isDir, acc)
               ended == PopN(openDirs, EndsIn(e.calls))
               balance == startsMinusEnds - EndsIn(e.calls)
           IN  /\ prevDir' = dir
               /\ wpath' = path
               /\ suppressed' = e.suppressed
               /\ UNCHANGED <<op, recvVars, sessVars, rfVars>>
               /\ IF ~e.ok
                  THEN /\ ops' = e.calls
                       /\ pc' = "returned" /\ result' = "error"
                       /\ prevDirSkipped' = e.skipped
                       /\ openDirs' = ended /\ startsMinusEnds' = balance
                       /\ wdescend' = FALSE
                  ELSE IF filterFailed(acc)
                  THEN /\ ops' = e.calls \o <<acceptCall>>
                       /\ pc' = "returned" /\ result' = "error"
                       /\ prevDirSkipped' = e.skipped
                       /\ openDirs' = ended /\ startsMinusEnds' = balance
                       /\ wdescend' = FALSE
                  ELSE IF isDir /\ acc = "reject"
                  THEN \* return filepath.SkipDir
                       /\ ops' = e.calls \o <<acceptCall>>
                       /\ pc' = "walk" /\ UNCHANGED result
                       /\ prevDirSkipped' = TRUE
                       /\ openDirs' = ended /\ startsMinusEnds' = balance
                       /\ wdescend' = FALSE
                  ELSE IF isDir
                  THEN /\ prevDirSkipped' = e.skipped
                       /\ wdescend' = (fail # "StartDirectory")
                       /\ IF fail = "StartDirectory"
                          THEN /\ ops' = e.calls \o
                                     <<acceptCall, CallR("StartDirectory", path, "error")>>
                               /\ pc' = "returned" /\ result' = "error"
                               /\ openDirs' = ended /\ startsMinusEnds' = balance
                          ELSE /\ ops' = e.calls \o
                                     <<acceptCall, CallR("StartDirectory", path, "ok")>>
                               /\ pc' = "walk" /\ UNCHANGED result
                               /\ openDirs' = Append(ended, path)
                               /\ startsMinusEnds' = balance + 1
                  ELSE /\ prevDirSkipped' = e.skipped
                       /\ wdescend' = FALSE
                       /\ openDirs' = ended /\ startsMinusEnds' = balance
                       /\ LET f == sendFile(path, acc, fail)
                          IN  /\ ops' = e.calls \o <<acceptCall>> \o f.calls
                              /\ IF f.ok
                                 THEN pc' = "walk" /\ UNCHANGED result
                                 ELSE pc' = "returned" /\ result' = "error"

\* filepath.Walk returned nil: return endDirectories(prevDir, srcDir)
SendWalkDone ==
    /\ op = "SendDir" /\ pc = "walk"
    /\ \E failAt \in 0..MaxWalkDepth :
        /\ LET e == endDirectories(prevDir, SrcDir, prevDirSkipped, failAt)
           IN  /\ ops' = e.calls
               /\ prevDirSkipped' = e.skipped
               /\ suppressed' = e.suppressed
               /\ openDirs' = PopN(openDirs, EndsIn(e.calls))
               /\ startsMinusEnds' = startsMinusEnds - EndsIn(e.calls)
               /\ pc' = "returned"
               /\ result' = IF e.ok THEN "ok" ELSE "error"
        /\ UNCHANGED <<op, prevDir, wpath, wdescend, recvVars, sessVars, rfVars>>

SendNext ==
    \/ SendWalkErr
    \/ SendVisit
    \/ SendWalkDone

SendInit ==
    /\ prevDir = SrcDir
    /\ prevDirSkipped = FALSE
    /\ wpath = SrcDir
    /\ wdescend = FALSE
    /\ openDirs = <<>>
    /\ startsMinusEnds = 0
    /\ suppressed = 0

\* =====================================================================
\* Session runners: runResourceSession (receive) and runSinkSession (send)
\* =====================================================================

ReceiveOps == {"Receive", "ReceiveFile", "ReceiveDir"}
SendOps == {"Send", "SendFile", "SendDir"}

SetupSteps == {"NewSession", "StdoutPipe", "StdinPipe", "Start", "newProtocol"}

\* The arguments every public operation passes to its session runner:
\* (path, false, "", recursive, true).
remoteIsDir(o) == FALSE

recursive(o) == o \in {"SendDir", "ReceiveDir"}

updatesPermission(o) == TRUE

\* the option string without the p of updatesPermission
optString_NoPermission(direction, isDir, rec, perm) ==
    <<direction>> \o (IF rec THEN <<"r">> ELSE <<>>) \o (IF isDir THEN <<"d">> ELSE <<>>)

\* opt := []byte("-f") (or "-t"), then 'p', 'r', 'd' appended under their flags
optString(direction, isDir, rec, perm) ==
    <<direction>> \o (IF perm THEN <<"p">> ELSE <<>>)
                  \o (IF rec THEN <<"r">> ELSE <<>>)
                  \o (IF isDir THEN <<"d">> ELSE <<>>)

\* the setup steps that come after the command line is built
AfterCmd == {"none", "Start", "newProtocol"}

\* newResourceSession: the ssh session left behind when step fail fails
\* ("none" when the session is never created, "nil" when Close is called on
\* the nil session) and the command line it built.
newResourceSession(fail, isDir, rec, perm) ==
    LET opt == IF fail \in AfterCmd THEN optString("f", isDir, rec, perm) ELSE <<>>
    IN  IF fail = "none"
        THEN [ok |-> TRUE, session |-> "open", closes |-> 0, opt |-> opt]
        ELSE IF fail = "NewSession"
        THEN [ok |-> FALSE, session |-> "nil", closes |-> 1, opt |-> opt]
        ELSE [ok |-> FALSE, session |-> "closed", closes |-> 1, opt |-> opt]

\* newSinkSession
newSinkSession(fail, isDir, rec, perm) ==
    LET opt == IF fail \in AfterCmd THEN optString("t", isDir, rec, perm) ELSE <<>>
    IN  IF fail = "none"
        THEN [ok |-> TRUE, session |-> "open", closes |-> 0, opt |-> opt]
        ELSE IF fail = "NewSession"
        THEN [ok |-> FALSE, session |-> "none", closes |-> 0, opt |-> opt]
        ELSE IF fail = "newProtocol"
        THEN [ok |-> FALSE, session |-> "open", closes |-> 0, opt |-> opt]
        ELSE [ok |-> FALSE, session |-> "closed", closes |-> 1, opt |-> opt]

\* no watcher goroutine at all
startsWatcher_Never(o) == FALSE

\* runResourceSession starts the watcher goroutine; runSinkSession has none.
startsWatcher(o) == o \in ReceiveOps

\* s, err := new...Session(...); if err != nil { return err }; defer s.Close();
\* go func() {...}()
RunNew(fail) ==
    /\ rpc = "new"
    /\ LET r == IF op \in ReceiveOps
                THEN newResourceSession(fail, remoteIsDir(op), recursive(op),
                                        updatesPermission(op))
                ELSE newSinkSession(fail, remoteIsDir(op), recursive(op),
                                    updatesPermission(op))
       IN  /\ session' = r.session
           /\ closeCalls' = r.closes
           /\ cmd' = r.opt
           /\ IF r.ok
              THEN /\ rpc' = "handler"
                   /\ stdin' = "open"
                   /\ watcher' = IF startsWatcher(op) THEN "started" ELSE "none"
                   /\ UNCHANGED <<result, reterr>>
              ELSE /\ rpc' = "returned"
                   /\ reterr' = fail
                   \* Close called on the nil *ssh.Session: it panics or it
                   \* returns, as the ssh package decides
                   /\ IF r.session = "nil"
                      THEN result' \in {"panic", "error"}
                      ELSE result' = "error"
                   /\ UNCHANGED <<stdin, watcher>>
    /\ UNCHANGED <<op, pc, ops, recvVars, sendVars, rfVars, ctxCancellable, cancelled, hleft,
                   remoteLeft, herr, cancelledInHandler>>

\* the caller (or a deadline) cancels the context
Cancel ==
    /\ ctxCancellable /\ ~cancelled
    /\ cancelled' = TRUE
    /\ cancelledInHandler' = (rpc = "handler")
    /\ UNCHANGED <<op, pc, result, ops, recvVars, sendVars, rfVars, rpc, ctxCancellable,
                   session, closeCalls, stdin, watcher, hleft, remoteLeft, herr,
                   cmd, reterr>>

\* done := ctx.Done(); if done == nil { return }
WatcherStart ==
    /\ watcher = "started"
    /\ watcher' = IF ctxCancellable THEN "waiting" ELSE "exited"
    /\ UNCHANGED <<op, pc, result, ops, recvVars, sendVars, rfVars, rpc, ctxCancellable,
                   cancelled, session, closeCalls, stdin, hleft, remoteLeft, herr,
                   cancelledInHandler,
                   cmd, reterr>>

\* case <-done: s.Close()
WatcherClose ==
    /\ watcher = "waiting" /\ cancelled
    /\ watcher' = "exited"
    /\ session' = "closed"
    /\ closeCalls' = closeCalls + 1
    /\ UNCHANGED <<op, pc, result, ops, recvVars, sendVars, rfVars, rpc, ctxCancellable,
                   cancelled, stdin, hleft, remoteLeft, herr, cancelledInHandler,
                   cmd, reterr>>

\* a read or write of the handler that the remote answers
HandlerIO ==
    /\ rpc = "handler" /\ hleft > 0
    /\ session = "open" /\ remoteLeft > 0
    /\ hleft' = hleft - 1
    /\ remoteLeft' = remoteLeft - 1
    /\ UNCHANGED <<op, pc, result, ops, recvVars, sendVars, rfVars, rpc, ctxCancellable,
                   cancelled, session, closeCalls, stdin, watcher, herr,
                   cancelledInHandler,
                   cmd, reterr>>

\* the handler's return goes straight back to the runner
afterHandler_NoCloseStdin(o) == "handlerReturned"

\* where the runner goes when the handler has returned: runSinkSession runs
\* the deferred CloseStdin first
afterHandler(o) == IF o \in SendOps THEN "closeStdin" ELSE "handlerReturned"

\* a read or write on the closed session fails and the handler returns the error
HandlerIOClosed ==
    /\ rpc = "handler" /\ hleft > 0
    /\ session = "closed"
    /\ herr' = TRUE
    /\ rpc' = afterHandler(op)
    /\ UNCHANGED <<op, pc, result, ops, recvVars, sendVars, rfVars, ctxCancellable, cancelled,
                   session, closeCalls, stdin, watcher, hleft, remoteLeft,
                   cancelledInHandler,
                   cmd, reterr>>

\* the handler fails for another reason (protocol error, fatal reply, local
\* file error, filter error) and returns the error
HandlerFails ==
    /\ rpc = "handler" /\ hleft > 0
    /\ session = "open"
    /\ herr' = TRUE
    /\ rpc' = afterHandler(op)
    /\ UNCHANGED <<op, pc, result, ops, recvVars, sendVars, rfVars, ctxCancellable, cancelled,
                   session, closeCalls, stdin, watcher, hleft, remoteLeft,
                   cancelledInHandler,
                   cmd, reterr>>

\* the handler returns nil
HandlerDone ==
    /\ rpc = "handler" /\ hleft = 0
    /\ herr' = FALSE
    /\ rpc' = afterHandler(op)
    /\ UNCHANGED <<op, pc, result, ops, recvVars, sendVars, rfVars, ctxCancellable, cancelled,
                   session, closeCalls, stdin, watcher, hleft, remoteLeft,
                   cancelledInHandler,
                   cmd, reterr>>

\* runSinkSession: defer s.CloseStdin()
CloseStdin ==
    /\ rpc = "closeStdin"
    /\ stdin' = "closed"
    /\ rpc' = "handlerReturned"
    /\ UNCHANGED <<op, pc, result, ops, recvVars, sendVars, rfVars, ctxCancellable, cancelled,
                   session, closeCalls, watcher, hleft, remoteLeft, herr,
                   cancelledInHandler,
                   cmd, reterr>>

\* if err := handler(s); err != nil { return err }; return s.Wait()
waitsForExit(e) == ~e

AfterHandler ==
    /\ rpc = "handlerReturned"
    /\ IF waitsForExit(herr)
       THEN rpc' = "wait" /\ UNCHANGED <<result, reterr>>
       ELSE rpc' = "deferClose" /\ result' = "error" /\ reterr' = "handler"
    /\ UNCHANGED <<op, pc, ops, recvVars, sendVars, rfVars, ctxCancellable, cancelled,
                   session, closeCalls, stdin, watcher, hleft, remoteLeft, herr,
                   cancelledInHandler,
                   cmd>>

\* s.Wait() returns because the remote process exited
WaitExit(res) ==
    /\ rpc = "wait" /\ session = "open"
    /\ result' = res
    /\ reterr' = IF res = "ok" THEN "nil" ELSE "wait"
    /\ rpc' = "deferClose"
    /\ UNCHANGED <<op, pc, ops, recvVars, sendVars, rfVars, ctxCancellable, cancelled,
                   session, closeCalls, stdin, watcher, hleft, remoteLeft, herr,
                   cancelledInHandler,
                   cmd>>

\* s.Wait() returns because the session was closed
WaitClosed(res) ==
    /\ rpc = "wait" /\ session = "closed"
    /\ result' = res
    /\ reterr' = IF res = "ok" THEN "nil" ELSE "wait"
    /\ rpc' = "deferClose"
    /\ UNCHANGED <<op, pc, ops, recvVars, sendVars, rfVars, ctxCancellable, cancelled,
                   session, closeCalls, stdin, watcher, hleft, remoteLeft, herr,
                   cancelledInHandler,
                   cmd>>

\* the error of the deferred Close returned in place of the runner's
deferredClose_Replaces(ret, closeErr) == IF closeErr THEN "close" ELSE ret

\* defer s.Close(): what Close returns is dropped
deferredClose(ret, closeErr) == ret

DeferredClose ==
    /\ rpc = "deferClose"
    /\ session' = "closed"
    /\ closeCalls' = closeCalls + 1
    /\ rpc' = "returned"
    /\ \E closeErr \in BOOLEAN : reterr' = deferredClose(reterr, closeErr)
    /\ UNCHANGED <<op, pc, result, ops, recvVars, sendVars, rfVars, ctxCancellable, cancelled,
                   stdin, watcher, hleft, remoteLeft, herr, cancelledInHandler,
                   cmd>>

SessNext ==
    \/ \E fail \in SetupSteps \cup {"none"} : RunNew(fail)
    \/ Cancel
    \/ WatcherStart
    \/ WatcherClose
    \/ HandlerIO
    \/ HandlerIOClosed
    \/ HandlerFails
    \/ HandlerDone
    \/ CloseStdin
    \/ AfterHandler
    \/ \E res \in {"ok", "error"} : WaitExit(res)
    \/ \E res \in {"ok", "error"} : WaitClosed(res)
    \/ DeferredClose

SessIdle ==
    /\ rpc = "new"
    /\ ctxCancellable = FALSE /\ cancelled = FALSE
    /\ session = "none" /\ closeCalls = 0 /\ stdin = "none" /\ watcher = "none"
    /\ hleft = 0 /\ remoteLeft = 0 /\ herr = FALSE /\ cancelledInHandler = FALSE
    /\ cmd = <<>> /\ reterr = "nil"

InitSess ==
    /\ op \in ReceiveOps \cup SendOps
    /\ pc = "start" /\ result = "none" /\ ops = <<>>
    /\ RecvInit /\ SendInit /\ RecvFileIdle
    /\ rpc = "new"
    /\ ctxCancellable \in BOOLEAN /\ cancelled = FALSE
    /\ session = "none" /\ closeCalls = 0 /\ stdin = "none" /\ watcher = "none"
    /\ hleft \in 1..MaxIO /\ remoteLeft \in 0..MaxIO
    /\ herr = FALSE /\ cancelledInHandler = FALSE
    /\ cmd = <<>> /\ reterr = "nil"

SessSpec == InitSess /\ [][SessNext]_vars

\* The Go scheduler runs every goroutine that can take a step: the watcher,
\* the runner and a handler whose call can return.  Nothing obliges the
\* remote to answer or to exit, and nothing obliges the caller to cancel.
SessFairness ==
    /\ WF_vars(WatcherStart) /\ WF_vars(WatcherClose)
    /\ WF_vars(HandlerIOClosed) /\ WF_vars(HandlerDone)
    /\ WF_vars(CloseStdin) /\ WF_vars(AfterHandler)
    /\ WF_vars(\E res \in {"ok", "error"} : WaitClosed(res))
    /\ WF_vars(DeferredClose)

FairSessSpec == SessSpec /\ SessFairness

\* =====================================================================
\* ReceiveFile
\* =====================================================================

SrcFiles == {<<>>} \cup {<<n>> : n \in Names} \cup {<<n, m>> : n, m \in Names}

DestArgs == {<<8>>, <<8, 9>>, <<8, 9, DotDot>>, <<8, DotDot, 8, 9>>}

DestKinds == {"notexist", "file", "dir"}

\* the destination joined with the base name whatever is there
receiveFileDest_AlwaysJoins(dest, kind, src) == JoinPath(dest, Base(src))

\* if err == nil && fiDest.IsDir() { destFile = filepath.Join(destFile, filepath.Base(srcFile)) }
receiveFileDest(dest, kind, src) ==
    IF kind = "dir" THEN JoinPath(dest, Base(src)) ELSE dest

\* destFile = filepath.Clean(destFile); os.Stat(destFile); the destination is
\* decided and the session is started
ReceiveFileBegin ==
    /\ op = "ReceiveFile" /\ pc = "start"
    /\ \E statErr \in BOOLEAN :
        LET cleaned == Clean(destArg)
        IN  /\ ops' = <<CallP("Stat", cleaned)>>
            /\ IF statErr
               THEN /\ pc' = "returned" /\ result' = "error"
                    /\ destFile' = cleaned
               ELSE /\ pc' = "handler" /\ UNCHANGED result
                    /\ destFile' = receiveFileDest(cleaned, destKind, srcFile)
    /\ UNCHANGED <<op, recvVars, sendVars, sessVars, srcFile, destArg, destKind>>

HeaderKinds == {"time", "start", "end", "file", "ok"}

\* timeHeader, ok := h.(timeMsgHeader): only a TimeHeader passes
isTimeHeader(kind) == kind = "time"

\* the type check dropped: any message that was read passes as a FileHeader
isFileHeader_AnyMessage(kind) == kind \in HeaderKinds

\* fileHeader, ok := h.(fileMsgHeader): only a FileHeader passes
isFileHeader(kind) == kind = "file"

\* the first ReadHeaderOrReply of the handler: a TimeHeader is expected
ReceiveFileTimeHeader ==
    /\ op = "ReceiveFile" /\ pc = "handler" /\ nread = 0
    /\ \E kind \in HeaderKinds \cup {"EOF", "error"}, t \in Times :
        /\ ops' = <<Read(kind)>>
        /\ nread' = 1
        /\ IF isTimeHeader(kind)
           THEN timeHeader' = t /\ UNCHANGED <<pc, result>>
           ELSE pc' = "returned" /\ result' = "error" /\ UNCHANGED timeHeader
    /\ UNCHANGED <<op, sendVars, sessVars, rfVars, skipsFirstDirectory, curDir,
                   timeHeaders, created, isFirstStartDirectory, skipBaseDir,
                   undrained, dirs, files, rejDepth>>

\* the second ReadHeaderOrReply: a FileHeader is expected, then
\* copyFileBodyFromRemote(s, destFile, timeHeader, fileHeader)
ReceiveFileFileHeader ==
    /\ op = "ReceiveFile" /\ pc = "handler" /\ nread = 1
    /\ \E kind \in HeaderKinds \cup {"EOF", "error"}, fail \in Failures \ {"MkdirAll"} :
        LET r == copyFileBodyFromRemote(destFile, timeHeader, fail)
        IN  /\ nread' = 2
            /\ pc' = "returned"
            /\ IF isFileHeader(kind)
               THEN /\ ops' = <<Read(kind)>> \o r.calls
                    /\ files' = IF r.created THEN files \cup {destFile} ELSE files
                    /\ undrained' = ~r.copied
                    /\ result' = IF r.ok THEN "ok" ELSE "error"
               ELSE /\ ops' = <<Read(kind)>>
                    /\ result' = "error"
                    /\ UNCHANGED <<files, undrained>>
    /\ UNCHANGED <<op, sendVars, sessVars, rfVars, skipsFirstDirectory, curDir,
                   timeHeader, timeHeaders, created, isFirstStartDirectory,
                   skipBaseDir, dirs, rejDepth>>

RecvFileNext ==
    \/ ReceiveFileBegin
    \/ ReceiveFileTimeHeader
    \/ ReceiveFileFileHeader

\* the local filesystem around the destination: its parent exists, and the
\* destination is absent, a file or a directory
InitRecvFile ==
    /\ op = "ReceiveFile" /\ pc = "start" /\ result = "none" /\ ops = <<>>
    /\ srcFile \in SrcFiles /\ destArg \in DestArgs /\ destKind \in DestKinds
    /\ destFile = destArg
    /\ skipsFirstDirectory = FALSE /\ curDir = DestDir
    /\ timeHeader = ZeroTime /\ timeHeaders = <<>> /\ created = <<>>
    /\ isFirstStartDirectory = TRUE /\ skipBaseDir = EmptyString
    /\ nread = 0 /\ undrained = FALSE /\ rejDepth = 0
    /\ dirs = IF destKind = "dir" THEN Prefixes(Clean(destArg))
              ELSE Prefixes(Dir(Clean(destArg)))
    /\ files = IF destKind = "file" THEN {Clean(destArg)} ELSE {}
    /\ SendInit /\ SessIdle

SpecRecvFile == InitRecvFile /\ [][RecvFileNext]_vars

\* ---------------------------------------------------------------- Receive
\* the io.Writer the caller passes to Receive
Writer == <<DotDot, DotDot, DotDot>>

\* Receive's handler, first ReadHeaderOrReply: a TimeHeader is expected
ReceiveTimeHeader ==
    /\ op = "Receive" /\ pc = "handler" /\ nread = 0
    /\ \E kind \in HeaderKinds \cup {"EOF", "error"}, t \in Times :
        /\ ops' = <<Read(kind)>>
        /\ nread' = 1
        /\ IF isTimeHeader(kind)
           THEN timeHeader' = t /\ UNCHANGED <<pc, result>>
           ELSE pc' = "returned" /\ result' = "error" /\ UNCHANGED timeHeader
    /\ UNCHANGED <<op, sendVars, sessVars, rfVars, skipsFirstDirectory, curDir,
                   timeHeaders, created, isFirstStartDirectory, skipBaseDir,
                   undrained, dirs, files, rejDepth>>

\* Receive's handler, second ReadHeaderOrReply: a FileHeader is expected,
\* then s.CopyFileBodyTo(fileHeader, dest)
ReceiveFileHeader ==
    /\ op = "Receive" /\ pc = "handler" /\ nread = 1
    /\ \E kind \in HeaderKinds \cup {"EOF", "error"},
          fail \in {"none", "CopyFileBodyTo"} :
        /\ nread' = 2
        /\ pc' = "returned"
        /\ IF isFileHeader(kind)
           THEN /\ ops' = <<Read(kind), CallP("CopyFileBodyTo", Writer)>>
                /\ result' = IF fail = "none" THEN "ok" ELSE "error"
           ELSE /\ ops' = <<Read(kind)>>
                /\ result' = "error"
    /\ UNCHANGED <<op, sendVars, sessVars, rfVars, skipsFirstDirectory, curDir,
                   timeHeader, timeHeaders, created, isFirstStartDirectory,
                   skipBaseDir, undrained, dirs, files, rejDepth>>

InitReceive ==
    /\ op = "Receive" /\ pc = "handler" /\ result = "none" /\ ops = <<>>
    /\ RecvInit /\ SendInit /\ SessIdle /\ RecvFileIdle

\* the two single-file receivers: Receive and ReceiveFile
InitRecvOne == InitReceive \/ InitRecvFile

RecvOneNext ==
    \/ ReceiveTimeHeader
    \/ ReceiveFileHeader
    \/ ReceiveFileBegin
    \/ ReceiveFileTimeHeader
    \/ ReceiveFileFileHeader

SpecRecvOne == InitRecvOne /\ [][RecvOneNext]_vars

InitRecv ==
    /\ op = "ReceiveDir" /\ pc = "start" /\ result = "none" /\ ops = <<>>
    /\ RecvInit /\ SendInit /\ SessIdle /\ RecvFileIdle

SpecRecv == InitRecv /\ [][RecvNext]_vars

InitSend ==
    /\ op = "SendDir" /\ pc = "start" /\ result = "none" /\ ops = <<>>
    /\ RecvInit /\ SendInit /\ SessIdle /\ RecvFileIdle

SpecSend == InitSend /\ [][SendNext]_vars

\* ReceiveDir and SendDir together
Init == InitRecv \/ InitSend

Next == RecvNext \/ SendNext

Spec == Init /\ [][Next]_vars

\* =====================================================================
\* Properties
\* =====================================================================

MadeIn(calls, name) == \E i \in DOMAIN calls : calls[i].call = name

NoFsCallIn(calls) == \A i \in DOMAIN calls : calls[i].call \notin FsCalls

ReadReturned(calls, kind) == calls # <<>> /\ calls[1] = Read(kind)

DiscardedIn(calls) ==
    \E i \in DOMAIN calls : calls[i] = CallP("CopyFileBodyTo", Discard)

\* C1: once the EndDirectoryHeader matching a filter-rejected directory has
\* been processed (the handler is outside every rejected subtree), ReceiveDir
\* is no longer skipping, so the next sibling is filter-evaluated again.
C1_SkipClearedAfterMatchingEnd ==
    (op = "ReceiveDir" /\ pc = "handler" /\ rejDepth = 0) => ~skipping

\* C2: ReceiveDir never calls ReadHeaderOrReply while the body of the
\* FileHeader it received last is still undrained (a rejected file's body is
\* copied to the discard sink first).
C2_NoReadWhileUndrained ==
    [][(op = "ReceiveDir" /\ nread' # nread) => ~undrained]_vars

\* C3: between the StartDirectoryHeader of a filter-rejected directory and
\* its matching EndDirectoryHeader, no step performs a filesystem action or
\* calls the accept filter, and every FileHeader's body is copied to the
\* discard sink.
C3_RejectedSubtreeUntouched ==
    [][(op = "ReceiveDir" /\ rejDepth > 0 /\ nread' # nread) =>
          /\ NoFsCallIn(ops')
          /\ ~MadeIn(ops', "acceptFn")
          /\ dirs' = dirs /\ files' = files
          /\ ReadReturned(ops', "file") => DiscardedIn(ops')]_vars

C3_Witness ==
    /\ op = "ReceiveDir" /\ pc = "handler" /\ rejDepth > 1
    /\ ReadReturned(ops, "file") /\ DiscardedIn(ops)

\* C4: the first StartDirectoryHeader is elided when destDir did not exist
\* (no filter call, no directory created, the current directory stays
\* destDir); when destDir existed it descends to destDir/<name>; every later
\* StartDirectoryHeader descends by its name.
C4_FirstStartDirectory ==
    [][(op = "ReceiveDir" /\ nread' # nread /\ ReadReturned(ops', "start")) =>
          IF isFirstStartDirectory /\ skipsFirstDirectory
          THEN /\ curDir' = curDir
               /\ curDir = DestDir => curDir' = DestDir
               /\ ~MadeIn(ops', "acceptFn") /\ NoFsCallIn(ops')
               /\ dirs' = dirs
          ELSE /\ \E name \in Names : curDir' = Join(curDir, name)
               /\ (isFirstStartDirectory /\ curDir = DestDir) =>
                     \E name \in Names : curDir' = Join(DestDir, name)]_vars

C4_Witness ==
    /\ op = "ReceiveDir" /\ pc = "handler" /\ skipsFirstDirectory
    /\ ~isFirstStartDirectory /\ Len(curDir) = Len(DestDir) + 1
    /\ ReadReturned(ops, "start") /\ MadeIn(ops, "MkdirAll")

\* The accepted directories from srcDir down to p, outermost first.
Chain(p) == [i \in 1..(Len(p) - Len(SrcDir) + 1) |-> SubSeq(p, 1, Len(SrcDir) + i - 1)]

RejectedDirIn(calls) ==
    \E i \in DOMAIN calls :
        calls[i].call = "acceptFn" /\ calls[i].arg = 1 /\ calls[i].ret = "reject"

RejectedFileIn(calls) ==
    \E i \in DOMAIN calls :
        calls[i].call = "acceptFn" /\ calls[i].arg = 0 /\ calls[i].ret = "reject"

\* C7: when SendDir returns nil, as many EndDirectory calls as StartDirectory
\* calls have been made (every started directory, srcDir included, is ended).
C7_EndsBalanceStarts ==
    (op = "SendDir" /\ pc = "returned" /\ result = "ok") => startsMinusEnds = 0

FilterErrorAborts(calls) ==
    \A i \in DOMAIN calls :
        (calls[i].call = "acceptFn" /\ calls[i].ret = "error") => i = Len(calls)

FilterErrorIn(calls) ==
    \E i \in DOMAIN calls : calls[i].call = "acceptFn" /\ calls[i].ret = "error"

\* C10: an error from the accept filter ends SendDir and ReceiveDir at that
\* entry: it is the handler's last call, the operation returns an error, and
\* nothing is evaluated, sent or written afterwards.
C10_FilterErrorAborts ==
    [][/\ FilterErrorIn(ops') =>
             FilterErrorAborts(ops') /\ pc' = "returned" /\ result' = "error"
       /\ pc = "returned" => UNCHANGED vars]_vars

C10_Witness ==
    /\ FilterErrorIn(ops) /\ pc = "returned" /\ Len(ops) > 2

\* C5: a send operation whose context is cancelled while its handler runs
\* gets its session closed and returns (instead of continuing or blocking).
C5_SendCancelClosesSession ==
    (op \in SendOps /\ cancelled /\ rpc = "handler")
        ~> (session = "closed" /\ rpc = "returned")

\* C6 as stated: a receive operation whose context was cancelled while its
\* handler was running returns an error.
C6_ReceiveCancelReturnsError ==
    (op \in ReceiveOps /\ rpc = "returned" /\ cancelledInHandler) => result = "error"

\* C6 as amended: when the signal fires while a receive handler runs, the
\* watcher closes the session and the operation returns; a handler blocked in
\* a read the remote never answers returns an error.
C6_ReceiveCancelUnblocks ==
    /\ (op \in ReceiveOps /\ cancelled /\ rpc = "handler")
          ~> (watcher = "exited" /\ session = "closed" /\ rpc = "returned")
    /\ (op \in ReceiveOps /\ cancelled /\ rpc = "handler" /\ hleft > 0
           /\ remoteLeft = 0)
          ~> (rpc = "returned" /\ result = "error")

C6_Witness ==
    /\ op \in ReceiveOps /\ cancelledInHandler /\ rpc = "returned"
    /\ hleft > 0 /\ remoteLeft = 0 /\ watcher = "exited" /\ result = "error"

\* C11: a closed session stays closed, and a further Close on it changes
\* nothing and does not close the underlying ssh session a second time.
C11_CloseIsIdempotent ==
    [][session = "closed" => (session' = "closed" /\ closeCalls' = closeCalls)]_vars

Elems(seq) == {seq[i] : i \in DOMAIN seq}

Index(seq, x) == CHOOSE i \in DOMAIN seq : seq[i] = x

\* opt is one direction letter followed by p, r, d in that order, each
\* present exactly when its flag is set and none repeated.
WellFormedOpt(opt, direction, isDir, rec, perm) ==
    /\ Len(opt) >= 1 /\ opt[1] = direction
    /\ Elems(opt) \subseteq {direction, "p", "r", "d"}
    /\ Cardinality(Elems(opt)) = Len(opt)
    /\ ("p" \in Elems(opt)) <=> perm
    /\ ("r" \in Elems(opt)) <=> rec
    /\ ("d" \in Elems(opt)) <=> isDir
    /\ \A x, y \in {"p", "r", "d"} :
           (x \in Elems(opt) /\ y \in Elems(opt) /\ <<x, y>> \in {<<"p", "r">>, <<"p", "d">>, <<"r", "d">>})
               => Index(opt, x) < Index(opt, y)

\* C13: the command line carries one direction flag (f for receive, t for
\* send), then p iff permissions are preserved, r iff recursive, d iff the
\* remote path is a directory; every operation sets p, and r is set exactly
\* for SendDir and ReceiveDir.
C13_CommandLineFlags ==
    /\ \A direction \in {"f", "t"}, isDir \in BOOLEAN, rec \in BOOLEAN, perm \in BOOLEAN :
           WellFormedOpt(optString(direction, isDir, rec, perm), direction, isDir, rec, perm)
    /\ cmd # <<>> =>
           /\ cmd[1] = (IF op \in ReceiveOps THEN "f" ELSE "t")
           /\ Elems(cmd) \cap {"f", "t"} = {cmd[1]}
           /\ "p" \in Elems(cmd)
           /\ ("r" \in Elems(cmd)) <=> (op \in {"SendDir", "ReceiveDir"})
    /\ (rpc \in {"handler", "wait"}) => cmd # <<>>

C13_Witness ==
    /\ op = "SendDir" /\ rpc = "handler" /\ cmd = <<"t", "p", "r">>

\* C15: a setup failure after the command channel was opened (stdout pipe,
\* stdin pipe, start, protocol initialisation) leaves the session closed when
\* the constructor returns the error.
C15_SetupFailureClosesSession ==
    (rpc = "returned" /\ reterr \in SetupSteps \ {"NewSession"}) => session = "closed"

\* C16: when opening the command channel fails, the constructor returns the
\* error and does nothing on the session that was never created: no Close.
C16_NoSessionNoClose ==
    (rpc = "returned" /\ reterr = "NewSession")
        => (closeCalls = 0 /\ session = "none" /\ result = "error")

\* C18: when the handler returns an error the runner returns that error,
\* never waits for the remote to exit, and still closes the session; the
\* close's own error does not replace the handler's.
C18_HandlerErrorReturned ==
    /\ rpc = "wait" => ~herr
    /\ (rpc = "deferClose" /\ herr) => reterr = "handler"
    /\ (rpc = "returned" /\ herr) =>
           /\ reterr = "handler" /\ result = "error"
           /\ session = "closed" /\ closeCalls >= 1

C18_Witness ==
    /\ rpc = "returned" /\ herr /\ reterr = "handler" /\ session = "closed"
    /\ closeCalls = 2

\* C19: in a send operation stdin is closed once the handler has returned,
\* with or without an error; after a successful handler it is closed before
\* the wait begins, and the session is closed only after the wait returned.
C19_StdinClosedBeforeWait ==
    op \in SendOps =>
        /\ rpc \in {"handlerReturned", "wait", "deferClose"} => stdin = "closed"
        /\ (rpc = "returned" /\ reterr \notin SetupSteps) => stdin = "closed"
        /\ (session = "closed" /\ stdin # "none") => rpc = "returned"
        /\ (rpc = "deferClose" /\ ~herr) => result \in {"ok", "error"}

C19_Witness ==
    /\ op \in SendOps /\ rpc = "wait" /\ ~herr /\ stdin = "closed" /\ session = "open"

\* the indices of the calls named name in calls
CallsOf(calls, name) == {i \in DOMAIN calls : calls[i].call = name}

\* C17: after an accepted file's body is copied, chmod comes before chtimes
\* and a failed chmod does not stop the chtimes from being attempted.
C17_ChmodThenChtimesBothAttempted ==
    op = "ReceiveDir" =>
        \A i \in CallsOf(ops, "Chmod") :
            (\E k \in CallsOf(ops, "OpenFile") : k < i /\ ops[k].path = ops[i].path)
                => \E j \in CallsOf(ops, "Chtimes") : j > i /\ ops[j].path = ops[i].path

\* C20: a directory created from an accepted StartDirectoryHeader gets its
\* times exactly once, at its matching EndDirectoryHeader and not at Start,
\* with the TimeHeader pushed at its Start; no other End applies any times.
C20_DirectoryTimesAtMatchingEnd ==
    [][(op = "ReceiveDir" /\ nread' # nread) =>
          /\ ReadReturned(ops', "start") => CallsOf(ops', "Chtimes") = {}
          /\ ReadReturned(ops', "end") =>
                IF Len(created) > 0 /\ created[Len(created)]
                THEN /\ Cardinality(CallsOf(ops', "Chtimes")) = 1
                     /\ \A i \in CallsOf(ops', "Chtimes") :
                            ops'[i] = CallA("Chtimes", curDir, timeHeaders[Len(timeHeaders)])
                ELSE CallsOf(ops', "Chtimes") = {}]_vars

\* the directories open when the last call of calls was made, given the
\* directories open after it
OpenAtLastCall(calls, after) ==
    IF calls[Len(calls)] = CallR("StartDirectory", calls[Len(calls)].path, "ok")
    THEN Front(after) ELSE after

ExpectedDest ==
    LET dest == Clean(destArg)
    IN  IF destKind = "dir" /\ srcFile # <<>>
        THEN Append(dest, srcFile[Len(srcFile)])
        ELSE dest

\* C12: ReceiveFile writes to destFile itself unless destFile is an existing
\* directory, and then to destFile/<base name of srcFile>; the path is
\* decided before the session starts and never changes afterwards.
C12_ReceiveFileDestination ==
    [][op = "ReceiveFile" =>
          /\ (pc = "start" /\ pc' = "handler") => destFile' = ExpectedDest
          /\ pc # "start" => destFile' = destFile
          /\ \A i \in CallsOf(ops', "OpenFile") \cup CallsOf(ops', "Chmod")
                      \cup CallsOf(ops', "Chtimes") \cup CallsOf(ops', "CopyFileBodyTo") :
                ops'[i].path = ExpectedDest
          /\ files' \ files \subseteq {ExpectedDest}]_vars

C12_Witness ==
    /\ op = "ReceiveFile" /\ pc = "returned" /\ result = "ok"
    /\ destKind = "dir" /\ Len(srcFile) = 2 /\ destArg # Clean(destArg)
    /\ destFile \in files /\ Dir(destFile) = Clean(destArg)
    /\ destFile[Len(destFile)] = srcFile[2]


\* C21: in Receive and ReceiveFile the first message read must be a
\* TimeHeader and the second a FileHeader; a read that yields anything else
\* (a reply, another header, end of stream, a read error) makes the operation
\* return an error with no file body copied and, in ReceiveFile, with the
\* destination file neither created nor truncated; and no body is copied
\* before the second read.
RecvOneReads == op \in {"Receive", "ReceiveFile"} /\ pc = "handler" /\ nread' = nread + 1

NothingCopied ==
    /\ ~MadeIn(ops', "CopyFileBodyTo") /\ ~MadeIn(ops', "OpenFile")
    /\ NoFsCallIn(ops') /\ files' = files /\ dirs' = dirs

C21_HeadersInOrderOrError ==
    [][RecvOneReads =>
         /\ nread = 0 => NothingCopied
         /\ (nread = 0 /\ ~ReadReturned(ops', "time")) =>
                pc' = "returned" /\ result' = "error"
         /\ (nread = 1 /\ ~ReadReturned(ops', "file")) =>
                pc' = "returned" /\ result' = "error" /\ NothingCopied
         /\ result' = "ok" => nread = 1 /\ ReadReturned(ops', "file")
         /\ pc' = "handler" => nread = 0 /\ ReadReturned(ops', "time")]_vars

\* ReceiveFile onto an existing file got a reply where the FileHeader was
\* expected: it returned an error and the file is still there, untouched
C21_Witness ==
    /\ op = "ReceiveFile" /\ pc = "returned" /\ result = "error" /\ nread = 2
    /\ ops = <<Read("ok")>>
    /\ destKind = "file" /\ destFile \in files

\* C22: whatever headers the remote sends, every directory ReceiveDir creates
\* and every file it writes lies inside destDir: each filter call and each
\* filesystem call made for a FileHeader or StartDirectoryHeader names a path
\* below destDir, also after more EndDirectoryHeaders than directories entered.
Within(base, p) == Len(p) >= Len(base) /\ SubSeq(p, 1, Len(base)) = base

C22_WritesStayInsideDestDir ==
    op = "ReceiveDir" =>
        /\ \A f \in files : Within(DestDir, f)
        /\ \A d \in dirs \ Prefixes(Dir(DestDir)) : Within(DestDir, d)
        /\ (ReadReturned(ops, "file") \/ ReadReturned(ops, "start")) =>
               \A i \in DOMAIN ops :
                   ops[i].call \in FsCalls \cup {"acceptFn"} =>
                       Within(DestDir, ops[i].path)

\* C23: the watcher goroutine started by runResourceSession eventually
\* terminates once the operation has returned, whatever the context: not
\* cancellable, cancelled during the operation, cancelled after it, or
\* cancellable and never cancelled.
C23_WatcherTerminates ==
    (op \in ReceiveOps /\ rpc = "returned" /\ watcher \in {"started", "waiting"})
        ~> (watcher = "exited")

====
